---- MODULE Spec2Model ----
(***************************************************************************)
(* Model of the Wiktionary entry extraction engine of anki-card-gen        *)
(* (src/src/lookup.rs, with the earlier copy of the segmenter and the      *)
(* shortening heuristic in src/src/main.rs).                               *)
(*                                                                         *)
(* A parsed HTML tree is a value built from Raw and Tag below.  A text is  *)
(* a sequence of characters (one-character strings); Option<T> is a        *)
(* sequence of length at most one (None = <<>>, Some(x) = <<x>>).  A       *)
(* fallible or panicking call returns a record [st, val] with st one of    *)
(* "ok", "none", "err", "panic".                                           *)
(***************************************************************************)
EXTENDS Naturals, Integers, Sequences, FiniteSets, TLC

VARIABLES pc, arg, ret, doc, sections, idx, pronunciation, meanings, result

vars == <<pc, arg, ret, doc, sections, idx, pronunciation, meanings, result>>

(***************************************************************************)
(* Options, results and texts                                              *)
(***************************************************************************)
None == <<>>

Some(x) == <<x>>

Ok(v) == [st |-> "ok", val |-> v]

Fail(kind) == [st |-> kind, val |-> <<>>]

\* The character U+00E9: one character, two bytes in UTF-8.
eAcute == "e_acute"

Utf8Len(c) == IF c = eAcute THEN 2 ELSE 1

RECURSIVE ByteLen(_)
\* String::len(): the length of a text in bytes, not in characters.
ByteLen(s) == IF s = <<>> THEN 0 ELSE Utf8Len(Head(s)) + ByteLen(Tail(s))

RECURSIVE Concat(_)
\* Vec<String>::join(""): the concatenation of a sequence of texts.
Concat(ss) == IF ss = <<>> THEN <<>> ELSE Head(ss) \o Concat(Tail(ss))

Rep(n, c) == [i \in 1..n |-> c]

sFrench == <<"F", "r", "e", "n", "c", "h">>
sEnglish == <<"E", "n", "g", "l", "i", "s", "h">>
sPronunciation == <<"P", "r", "o", "n", "u", "n", "c", "i", "a", "t", "i", "o", "n">>
sNoun == <<"N", "o", "u", "n">>
sAdjective == <<"A", "d", "j", "e", "c", "t", "i", "v", "e">>
sVerb == <<"V", "e", "r", "b">>
sPronoun == <<"P", "r", "o", "n", "o", "u", "n">>
sAdverb == <<"A", "d", "v", "e", "r", "b">>
sNumeral == <<"N", "u", "m", "e", "r", "a", "l">>
sDeterminer == <<"D", "e", "t", "e", "r", "m", "i", "n", "e", "r">>
sPreposition == <<"P", "r", "e", "p", "o", "s", "i", "t", "i", "o", "n">>
sInterjection == <<"I", "n", "t", "e", "r", "j", "e", "c", "t", "i", "o", "n">>
sEtymology == <<"E", "t", "y", "m", "o", "l", "o", "g", "y">>
sFeminine == <<"f", "e", "m", "i", "n", "i", "n", "e">>
sMasculinePlural == <<"m", "a", "s", "c", "u", "l", "i", "n", "e", " ", "p", "l", "u", "r", "a", "l">>
sFemininePlural == <<"f", "e", "m", "i", "n", "i", "n", "e", " ", "p", "l", "u", "r", "a", "l">>
sGrande == <<"g", "r", "a", "n", "d", "e">>
sGrands == <<"g", "r", "a", "n", "d", "s">>
sHttps == <<"h", "t", "t", "p", "s", ":">>
sCatAnAnimal == <<"c", "a", "t", " ", "(", "a", "n", " ", "a", "n", "i", "m", "a", "l", ")">>
sJaiUnChat == <<"J", "'", "a", "i", " ", "u", "n", " ", "c", "h", "a", "t">>
sIHaveACat == <<"I", " ", "h", "a", "v", "e", " ", "a", " ", "c", "a", "t">>

(***************************************************************************)
(* The parsed tree (tl::Node) and the Tree Navigator                       *)
(***************************************************************************)
\* Node::Raw: a text node.
Raw(t) == [kind |-> "raw", name |-> "", class |-> {}, src |-> None, kids |-> <<>>, text |-> t]

\* Node::Tag: an element with a tag name, class names, an optional src
\* attribute and child nodes.
TagS(n, c, s, k) == [kind |-> "tag", name |-> n, class |-> c, src |-> s, kids |-> k, text |-> <<>>]

Tag(n, c, k) == TagS(n, c, None, k)

\* A tag that wraps one text node.
El(n, c, t) == Tag(n, c, <<Raw(t)>>)

get_children(node) == IF node.kind = "tag" THEN Some(node.kids) ELSE None

RECURSIVE Descendants(_)
\* The subtree below a tag, in document order (what query_selector scans).
Descendants(node) ==
    LET RECURSIVE Walk(_)
        Walk(ks) == IF ks = <<>> THEN <<>>
                    ELSE <<Head(ks)>> \o Descendants(Head(ks)) \o Walk(Tail(ks))
    IN  Walk(node.kids)

\* A selector is a tag name and the class names it requires.
Sel(n, c) == [name |-> n, class |-> c]

query_selector(node, sel) ==
    LET Hit(d) == d.kind = "tag" /\ d.name = sel.name /\ sel.class \subseteq d.class
    IN  SelectSeq(Descendants(node), Hit)

query_select_first(node, sel) ==
    IF node.kind # "tag" THEN None
    ELSE LET hits == query_selector(node, sel)
         IN  IF hits = <<>> THEN None ELSE Some(hits[1])

get_immediate_text(node) ==
    LET children == get_children(node)
    IN  IF children = None THEN None
        ELSE IF Len(children[1]) = 1 /\ children[1][1].kind = "raw"
             THEN Some(children[1][1].text)
             ELSE None

get_header_text(node) ==
    LET first_hit == query_select_first(node, Sel("span", {"mw-headline"}))
    IN  IF first_hit = None THEN None ELSE get_immediate_text(first_hit[1])

RECURSIVE inner_text(_)
\* Node::inner_text: the text of a node with all markup dropped.
inner_text(node) ==
    IF node.kind = "raw" THEN node.text
    ELSE LET RECURSIVE Each(_)
             Each(ks) == IF ks = <<>> THEN <<>>
                         ELSE inner_text(Head(ks)) \o Each(Tail(ks))
         IN  Each(node.kids)

RECURSIVE inner_html(_)
\* HTMLTag::inner_html: the markup between a tag's opening and closing
\* tags; nested elements keep their tags.
inner_html(node) ==
    LET Outer(k) == IF k.kind = "raw" THEN k.text
                    ELSE <<"<", k.name, ">">> \o inner_html(k) \o <<"<", "/", k.name, ">">>
        RECURSIVE Each(_)
        Each(ks) == IF ks = <<>> THEN <<>> ELSE Outer(Head(ks)) \o Each(Tail(ks))
    IN  Each(node.kids)

\* The indices of the nodes that are tags with one of the given names.
Splitters(nodes, names) ==
    LET Keep(i) == nodes[i].kind = "tag" /\ nodes[i].name \in names
    IN  SelectSeq([i \in 1..Len(nodes) |-> i], Keep)

(***************************************************************************)
(* Definition shortening                                                   *)
(***************************************************************************)
ShortenThreshold == 15

\* Regex ^(.*) \((.*)\)$ : the positions of " (" that leave room for the
\* closing ")" at the end of the text; "." does not match a line break.
ParenStarts(meaning) ==
    IF meaning = <<>> \/ meaning[Len(meaning)] # ")"
       \/ \E j \in 1..Len(meaning) : meaning[j] = "\n"
    THEN {}
    ELSE {i \in 1..(Len(meaning) - 2) : meaning[i] = " " /\ meaning[i + 1] = "("}

Max(S) == CHOOSE x \in S : \A y \in S : y <= x

Min(S) == CHOOSE x \in S : \A y \in S : x <= y

shorten_meaning(meaning) ==
    LET starts == ParenStarts(meaning)
    IN  IF starts = {} THEN meaning
        ELSE LET i == Max(starts)          \* group 1 is greedy
                 g1 == SubSeq(meaning, 1, i - 1)
                 g2 == SubSeq(meaning, i + 2, Len(meaning) - 1)
             IN  IF ByteLen(g2) >= ShortenThreshold THEN g1 ELSE meaning

(***************************************************************************)
(* Section Segmenter                                                       *)
(***************************************************************************)
\* split_and_take with the label comparison lost: the first heading of the
\* level is taken whatever it says.
split_and_take_any_label(nodes, header_level, header_content) ==
    LET splitters == Splitters(nodes, {header_level})
    IN  IF splitters = <<>> THEN None
        ELSE IF 1 < Len(splitters)
             THEN Some(SubSeq(nodes, splitters[1], splitters[2] - 1))
             ELSE Some(SubSeq(nodes, splitters[1], Len(nodes)))

split_and_take(nodes, header_level, header_content) ==
    LET splitters == Splitters(nodes, {header_level})
        hits == {k \in 1..Len(splitters) :
                    get_header_text(nodes[splitters[k]]) = Some(header_content)}
    IN  IF hits = {} THEN None
        ELSE LET match_ == Min(hits)
             IN  IF match_ < Len(splitters)
                 THEN Some(SubSeq(nodes, splitters[match_], splitters[match_ + 1] - 1))
                 ELSE Some(SubSeq(nodes, splitters[match_], Len(nodes)))

\* zip(splitters[..], splitters[1..]): one range per consecutive pair of
\* sub-headings.  splitters[1..] is out of range for an empty vector, so
\* the call panics when the region has no h3 or h4 at all.
split_at_h3_h4(nodes) ==
    LET splitters == Splitters(nodes, {"h3", "h4"})
    IN  IF Len(splitters) = 0 THEN Fail("panic")
        ELSE Ok([k \in 1..(Len(splitters) - 1) |->
                    SubSeq(nodes, splitters[k], splitters[k + 1] - 1)])

\* The parsed document is its root node; the page body is the first
\* div.mw-parser-output below it.
fetch_french_sections(dom) ==
    LET mw_parser_output == query_select_first(dom, Sel("div", {"mw-parser-output"}))
    IN  IF mw_parser_output = None THEN Fail("none")
        ELSE LET body_elems == get_children(mw_parser_output[1])
             IN  IF body_elems = None THEN Fail("none")
                 ELSE LET french_tags == split_and_take(body_elems[1], "h2", sFrench)
                      IN  IF french_tags = None THEN Fail("none")
                          ELSE split_at_h3_h4(french_tags[1])

find_first_node_by_name(nodes, node_name) ==
    LET hits == {i \in 1..Len(nodes) : nodes[i].kind = "tag" /\ nodes[i].name = node_name}
    IN  IF hits = {} THEN None ELSE Some(nodes[Min(hits)])

(***************************************************************************)
(* Meaning/Example Parser                                                  *)
(***************************************************************************)
Whitespace == {" ", "\t", "\n"}

RECURSIVE TrimStart(_)
TrimStart(s) == IF s # <<>> /\ Head(s) \in Whitespace THEN TrimStart(Tail(s)) ELSE s

RECURSIVE TrimEnd(_)
TrimEnd(s) == IF s # <<>> /\ s[Len(s)] \in Whitespace
              THEN TrimEnd(SubSeq(s, 1, Len(s) - 1)) ELSE s

\* str::trim
Trim(s) == TrimEnd(TrimStart(s))

\* split("\n").next(): the text before the first line break.
FirstLine(s) ==
    LET breaks == {i \in 1..Len(s) : s[i] = "\n"}
    IN  IF breaks = {} THEN s ELSE SubSeq(s, 1, Min(breaks) - 1)

\* parse_example with the missing-translation case treated as a failure.
parse_example_needs_translation(node, inline_mode) ==
    LET orig_query == IF inline_mode THEN Sel("i", {"Latn", "mention", "e-example"})
                      ELSE Sel("span", {"e-quotation"})
        orig == query_select_first(node, orig_query)
        trans == query_select_first(node, Sel("span", {"e-translation"}))
    IN  IF orig = None \/ trans = None THEN None
        ELSE Some(<<inner_html(orig[1]), Some(inner_html(trans[1]))>>)

parse_example(node, inline_mode) ==
    LET orig_query == IF inline_mode THEN Sel("i", {"Latn", "mention", "e-example"})
                      ELSE Sel("span", {"e-quotation"})
        orig == query_select_first(node, orig_query)
        trans == query_select_first(node, Sel("span", {"e-translation"}))
    IN  IF orig = None \/ orig[1].kind # "tag" THEN None
        ELSE IF trans = None THEN Some(<<inner_html(orig[1]), None>>)
        ELSE IF trans[1].kind = "tag"
             THEN Some(<<inner_html(orig[1]), Some(inner_html(trans[1]))>>)
             ELSE None

\* filter_map over a sequence of options: the values of the ones present.
FilterSome(opts) == Concat(opts)

ExamplesOf(last_node) ==
    IF last_node.kind = "tag" /\ last_node.name = "dl"
    THEN LET hs == query_selector(last_node, Sel("div", {"h-usage-example"}))
         IN  FilterSome([i \in 1..Len(hs) |-> parse_example(hs[i], TRUE)])
    ELSE IF last_node.kind = "tag" /\ last_node.name = "ul"
    THEN LET hs == query_selector(last_node, Sel("li", {}))
         IN  FilterSome([i \in 1..Len(hs) |-> parse_example(hs[i], FALSE)])
    ELSE <<>>

parse_meaning_item(node, pos) ==
    LET children == get_children(node)
    IN  IF children = None \/ children[1] = <<>> THEN None
        ELSE LET cs == children[1]
                 last_node == cs[Len(cs)]
                 examples == ExamplesOf(last_node)
                 texts == Concat([i \in 1..Len(cs) |-> inner_text(cs[i])])
                 meaning == shorten_meaning(Trim(FirstLine(texts)))
             IN  Some([pos |-> pos, meaning |-> meaning, examples |-> examples])

get_meanings_from_section(section, pos) ==
    LET ol == find_first_node_by_name(Tail(section), "ol")
    IN  IF ol = None THEN Fail("err")
        ELSE LET children == get_children(ol[1])[1]
                 Item(n) == IF n.kind # "tag" \/ n.name # "li" THEN None
                            ELSE parse_meaning_item(n, pos)
             IN  Ok(FilterSome([i \in 1..Len(children) |-> Item(children[i])]))

(***************************************************************************)
(* Grammar-Attribute Extractors                                            *)
(***************************************************************************)
Noun(gender) == [variant |-> "Noun", gender |-> gender, f |-> None, mp |-> None, fp |-> None]

Adjective(f, mp, fp) == [variant |-> "Adjective", gender |-> None, f |-> f, mp |-> mp, fp |-> fp]

\* The variants that carry no attribute.
Plain(v) == [variant |-> v, gender |-> None, f |-> None, mp |-> None, fp |-> None]

\* get_gender_from_section reading the last abbreviation of the paragraph
\* instead of the first.
get_gender_from_last_abbr(section) ==
    LET outer_node == find_first_node_by_name(section, "p")
    IN  IF outer_node = None THEN None
        ELSE LET hits == query_selector(outer_node[1], Sel("abbr", {}))
             IN  IF hits = <<>> THEN None
                 ELSE LET s == get_immediate_text(hits[Len(hits)])
                      IN  IF s = Some(<<"m">>) THEN Some("Masculine")
                          ELSE IF s = Some(<<"f">>) THEN Some("Feminine")
                          ELSE None

get_gender_from_section(section) ==
    LET outer_node == find_first_node_by_name(section, "p")
    IN  IF outer_node = None THEN None
        ELSE LET abbr_node == query_select_first(outer_node[1], Sel("abbr", {}))
             IN  IF abbr_node = None THEN None
                 ELSE LET s == get_immediate_text(abbr_node[1])
                      IN  IF s = Some(<<"m">>) THEN Some("Masculine")
                          ELSE IF s = Some(<<"f">>) THEN Some("Feminine")
                          ELSE None

get_pr_from_section(section) ==
    LET subsec == find_first_node_by_name(Tail(section), "ul")
    IN  IF subsec = None THEN None
        ELSE LET ipa_node == query_select_first(subsec[1], Sel("span", {"IPA"}))
                 ipa == IF ipa_node = None THEN None ELSE get_immediate_text(ipa_node[1])
                 audio_tag == query_select_first(subsec[1], Sel("source", {}))
             IN  IF ipa = None \/ audio_tag = None \/ audio_tag[1].src = None THEN None
                 ELSE Some([ipa |-> ipa[1], audio_url |-> sHttps \o audio_tag[1].src[1]])

RECURSIVE AdjScan(_, _, _)
\* The loop over adjacent element pairs (idx, idx + 1), from pair i on.
AdjScan(children, i, acc) ==
    IF i >= Len(children) THEN acc
    ELSE LET this_tag == children[i]
             next_tag == children[i + 1]
             label == inner_text(this_tag)
             form == inner_text(next_tag)
         IN  IF this_tag.name # "i" \/ next_tag.name # "b" THEN AdjScan(children, i + 1, acc)
             ELSE IF label = sFeminine
                  THEN AdjScan(children, i + 1, [acc EXCEPT !.f = Some(form)])
             ELSE IF label = sMasculinePlural
                  THEN AdjScan(children, i + 1, [acc EXCEPT !.mp = Some(form)])
             ELSE IF label = sFemininePlural
                  THEN AdjScan(children, i + 1, [acc EXCEPT !.fp = Some(form)])
             ELSE AdjScan(children, i + 1, acc)

\* children.len() - 1 is computed in usize: with no element child it
\* overflows (a panic in a debug build) or wraps to usize::MAX, and then
\* children[0] is out of bounds (a panic in a release build).
get_adj_form_from_section(section) ==
    LET outer_node == find_first_node_by_name(section, "p")
    IN  IF outer_node = None THEN Fail("none")
        ELSE LET IsTag(n) == n.kind = "tag"
                 children == SelectSeq(get_children(outer_node[1])[1], IsTag)
             IN  IF Len(children) = 0 THEN Fail("panic")
                 ELSE Ok(AdjScan(children, 1, Adjective(None, None, None)))

(***************************************************************************)
(* Documents the extraction is run on                                      *)
(***************************************************************************)
Heading(level, label) == Tag(level, {}, <<El("span", {"mw-headline"}, label)>>)

\* A heading whose headline span holds nested markup: its label cannot be read.
UnreadableHeading(level, label) ==
    Tag(level, {}, <<Tag("span", {"mw-headline"}, <<El("i", {}, label)>>)>>)

sChat == <<"c", "h", "a", "t">>
sIpa == <<"/", "S", "a", "/">>
sAudioSrc == <<"/", "/", "u", "/", "c", ".", "o", "g", "g">>
sWikiUrl == <<"h", "t", "t", "p", "s", ":", "/", "/", "e", "n", ".", "w", "i", "k", "t", "i", "o", "n", "a", "r", "y", ".", "o", "r", "g", "/", "w", "i", "k", "i", "/">>
sAnchor == <<"#", "F", "r", "e", "n", "c", "h">>
sCat == <<"c", "a", "t">>
sBig == <<"b", "i", "g">>
sToBe == <<"t", "o", " ", "b", "e">>

InlineExample(orig, trans) ==
    Tag("div", {"h-usage-example"},
        <<El("i", {"Latn", "mention", "e-example"}, orig)>>
        \o (IF trans = None THEN <<>> ELSE <<El("span", {"e-translation"}, trans[1])>>))

dlCat == Tag("dl", {}, <<Tag("dd", {}, <<InlineExample(sJaiUnChat, Some(sIHaveACat))>>)>>)

\* <li>cat (an animal)<dl>...</dl></li>, without and with a line break
\* between the definition and the examples container.
liCat == Tag("li", {}, <<Raw(sCatAnAnimal), dlCat>>)

liCatNl == Tag("li", {}, <<Raw(sCatAnAnimal \o <<"\n">>), dlCat>>)

Ol(items) == Tag("ol", {}, items)

pMasc == Tag("p", {}, <<El("b", {}, sChat), Raw(<<" ">>), El("abbr", {}, <<"m">>)>>)

pAdj == Tag("p", {}, <<El("b", {}, sBig), Raw(<<" ">>), El("i", {}, sFeminine), El("b", {}, sGrande)>>)

pText == Tag("p", {}, <<Raw(sBig)>>)

ulPron == Tag("ul", {}, <<Tag("li", {}, <<El("span", {"IPA"}, sIpa),
                                          TagS("source", {}, Some(sAudioSrc), <<>>)>>)>>)

ulNoAudio == Tag("ul", {}, <<Tag("li", {}, <<El("span", {"IPA"}, sIpa)>>)>>)

\* The subsections a language region is put together from: each is a
\* sub-heading followed by the nodes up to the next sub-heading.
SectionKinds ==
    { <<Heading("h4", sPronunciation), ulPron>>,
      <<Heading("h4", sPronunciation), ulNoAudio>>,
      <<Heading("h3", sNoun), Ol(<<liCat>>)>>,
      <<Heading("h4", sNoun), pMasc, Ol(<<El("li", {}, sCat)>>)>>,
      <<Heading("h3", sNoun), pMasc>>,
      <<Heading("h3", sAdjective), pAdj, Ol(<<El("li", {}, sBig)>>)>>,
      <<Heading("h3", sAdjective), Ol(<<El("li", {}, sBig)>>)>>,
      <<Heading("h3", sVerb), Ol(<<El("li", {}, sToBe)>>)>>,
      <<Heading("h3", sEtymology), pText>>,
      <<UnreadableHeading("h3", sNoun), Ol(<<El("li", {}, sCat)>>)>> }

MaxSections == 3

\* All sequences over S of length at most n.
SeqsUpTo(S, n) == UNION {[1..k -> S] : k \in 0..n}

SectionLists == SeqsUpTo(SectionKinds, MaxSections)

MaxOtherSections == 2

EnglishEntry == <<Heading("h2", sEnglish), Heading("h3", sNoun), Ol(<<El("li", {}, sCat)>>)>>

\* What a page without a French entry starts with: nothing, another
\* language's entry, or a heading whose label "French" cannot be read.
OtherHeads == {<<>>, EnglishEntry, <<UnreadableHeading("h2", sFrench)>>}

\* What a page with a French entry starts with: the French heading, or
\* another entry followed by the French heading and leading material.
RegionHeads == {<<Heading("h2", sFrench)>>, EnglishEntry \o <<Heading("h2", sFrench), pText>>}

\* What may follow the language region: another language's entry.
Trail == EnglishEntry

Page(body) == Tag("html", {}, <<Tag("div", {"mw-parser-output"}, body)>>)

Bodies ==
    {h \o Concat(ss) : h \in OtherHeads, ss \in SeqsUpTo(SectionKinds, MaxOtherSections)}
    \cup {h \o Concat(ss) : h \in RegionHeads, ss \in SectionLists}
    \cup {<<Heading("h2", sFrench)>> \o Concat(ss) \o Trail : ss \in SectionLists}

\* A language region made of one subsection and a closing sub-heading.
OneSection(sec) == <<Heading("h2", sFrench)>> \o sec \o <<Heading("h3", sEtymology), pText>>

\* The scenario page: h2 "French", a single h3 "Noun", one list item.
ScenarioBodies ==
    {<<Heading("h2", sFrench), Heading("h3", sNoun), Ol(<<li>>)>> : li \in {liCat, liCatNl}}

\* Noun subsections: the paragraphs differ in the abbreviations they hold.
NounParagraphs ==
    { pMasc,
      Tag("p", {}, <<El("abbr", {}, <<"f">>)>>),
      Tag("p", {}, <<El("abbr", {}, <<"f">>), El("abbr", {}, <<"m">>)>>),
      Tag("p", {}, <<El("abbr", {}, <<"n">>), El("abbr", {}, <<"m">>)>>),
      Tag("p", {}, <<Tag("abbr", {}, <<El("b", {}, <<"m">>)>>), El("abbr", {}, <<"f">>)>>),
      Tag("p", {}, <<Tag("span", {"gender"}, <<El("abbr", {}, <<"m">>)>>)>>),
      pText }

NounNodeKinds == NounParagraphs \cup {Ol(<<El("li", {}, sCat)>>), Raw(<<"\n">>)}

MaxNounNodes == 2

NounSections == {<<Heading("h3", sNoun)>> \o b : b \in SeqsUpTo(NounNodeKinds, MaxNounNodes)}

\* Adjective subsections: the paragraph's children are labels, forms and text.
AdjKidKinds ==
    { El("i", {}, sFeminine), El("i", {}, sMasculinePlural), El("i", {}, sFemininePlural),
      El("i", {}, sBig), El("b", {}, sGrande), El("b", {}, sGrands), Raw(<<" ">>) }

MaxAdjKids == 3

AdjectiveSections ==
    {<<Heading("h3", sAdjective), Tag("p", {}, ks), Ol(<<El("li", {}, sBig)>>)>> :
        ks \in SeqsUpTo(AdjKidKinds, MaxAdjKids)}

\* List items: a definition followed by an examples container (inline
\* usage examples in a dl, quotations in a ul) or by something else.
InlineKinds ==
    { InlineExample(sJaiUnChat, Some(sIHaveACat)),
      InlineExample(sChat, None),
      Tag("div", {"h-usage-example"}, <<El("span", {"e-translation"}, sIHaveACat)>>),
      Tag("div", {"h-usage-example"}, <<El("span", {"e-quotation"}, sJaiUnChat)>>) }

QuoteKinds ==
    { Tag("li", {}, <<El("span", {"e-quotation"}, sJaiUnChat), El("span", {"e-translation"}, sIHaveACat)>>),
      Tag("li", {}, <<Tag("span", {"e-quotation"}, <<Raw(sChat), El("b", {}, sChat)>>)>>),
      Tag("li", {}, <<Raw(sCat)>>),
      Tag("li", {}, <<El("i", {"Latn", "mention", "e-example"}, sJaiUnChat)>>),
      Tag("li", {}, <<Raw(sCat), Tag("ul", {}, <<El("li", {}, sChat),
                                                 Tag("li", {}, <<El("span", {"e-quotation"}, sChat)>>)>>)>>) }

MaxExamples == 2

ItemTails ==
    {<<Tag("dl", {}, <<Tag("dd", {}, es)>>)>> : es \in SeqsUpTo(InlineKinds, MaxExamples)}
    \cup {<<Tag("ul", {}, es)>> : es \in SeqsUpTo(QuoteKinds, MaxExamples)}
    \cup {<<>>, <<dlCat, Raw(<<".">>)>>, <<El("span", {"e-quotation"}, sJaiUnChat)>>}

Items ==
    {Tag("li", {}, <<Raw(d)>> \o t) : d \in {sToBe, sToBe \o <<"\n">>}, t \in ItemTails}
    \cup {Tag("li", {}, <<>>)}

ItemSections == {<<Heading("h3", sVerb), Ol(<<li>>)>> : li \in Items}

\* Pronunciation subsections: complete ones with different values, and
\* ones that lack the transcription, the audio source, its src or the list.
sIpaAlt == <<"/", "S", "A", "/">>

sAudioSrcAlt == <<"/", "/", "u", "/", "d", ".", "o", "g", "g">>

PronunciationSections ==
    { <<Heading("h4", sPronunciation), ulPron>>,
      <<Heading("h3", sPronunciation),
        Tag("ul", {}, <<Tag("li", {}, <<TagS("source", {}, Some(sAudioSrcAlt), <<>>),
                                        El("span", {"IPA"}, sIpaAlt)>>)>>)>>,
      <<Heading("h4", sPronunciation), ulNoAudio>>,
      <<Heading("h4", sPronunciation),
        Tag("ul", {}, <<Tag("li", {}, <<TagS("source", {}, Some(sAudioSrc), <<>>)>>)>>)>>,
      <<Heading("h4", sPronunciation),
        Tag("ul", {}, <<Tag("li", {}, <<Tag("span", {"IPA"}, <<El("b", {}, sIpa)>>),
                                        TagS("source", {}, Some(sAudioSrc), <<>>)>>)>>)>>,
      <<Heading("h4", sPronunciation),
        Tag("ul", {}, <<Tag("li", {}, <<El("span", {"IPA"}, sIpa), Tag("source", {}, <<>>)>>)>>)>>,
      <<Heading("h4", sPronunciation), pText>>,
      <<Heading("h4", sPronunciation), ulNoAudio, ulPron>> }

MaxPronSections == 2

PronunciationBodies ==
    {<<Heading("h2", sFrench)>> \o Concat(ss) \o <<Heading("h3", sEtymology), pText>> :
        ss \in SeqsUpTo(PronunciationSections, MaxPronSections)}

\* One subsection under each label of the dispatch, and under labels it
\* does not know, with and without a list.
DispatchLabels ==
    {sVerb, sPronoun, sAdverb, sNumeral, sDeterminer, sPreposition, sInterjection,
     sEtymology, sFrench}

LabelSections ==
    {<<Heading("h3", l), Ol(<<liCat>>)>> : l \in DispatchLabels}
    \cup {<<Heading("h4", l), pText>> : l \in DispatchLabels}

FamilyBodies ==
    {OneSection(sec) :
        sec \in NounSections \cup AdjectiveSections \cup ItemSections \cup LabelSections}
    \cup PronunciationBodies

Docs == {Tag("html", {}, <<>>)} \cup {Page(b) : b \in Bodies \cup ScenarioBodies \cup FamilyBodies}

Words == {sChat}

(***************************************************************************)
(* Entry Assembler: wiktionary_lookup on a parsed document                  *)
(***************************************************************************)
part_of_speech_name ==
    {sVerb, sPronoun, sAdverb, sNumeral, sDeterminer, sPreposition, sInterjection}

\* The variant a label of part_of_speech_name maps to.
VariantOf(label) ==
    CASE label = sVerb -> "Verb"
      [] label = sPronoun -> "Pronoun"
      [] label = sAdverb -> "Adverb"
      [] label = sNumeral -> "Numeral"
      [] label = sDeterminer -> "Determiner"
      [] label = sPreposition -> "Preposition"
      [] label = sInterjection -> "Interjection"

Word(word, pron, ms) ==
    [word |-> word, wiki_link |-> sWikiUrl \o word \o sAnchor,
     pronunciation |-> pron, meanings |-> ms]

Running == Fail("running")

Init ==
    /\ pc = "fetch"
    /\ arg \in Words
    /\ doc \in Docs
    /\ ret = <<>>
    /\ sections = <<>>
    /\ idx = 1
    /\ pronunciation = None
    /\ meanings = <<>>
    /\ result = Running

\* The lookup ends without a Word: an error value or a panic.
Abort(kind) ==
    /\ pc' = "done"
    /\ result' = Fail(kind)
    /\ UNCHANGED <<arg, ret, doc, sections, idx, pronunciation, meanings>>

\* The loop goes on to the next subsection with these accumulators.
Continue(pron, ms) ==
    /\ pronunciation' = pron
    /\ meanings' = ms
    /\ idx' = idx + 1
    /\ UNCHANGED <<pc, arg, ret, doc, sections, result>>

\* meanings.extend(get_meanings_from_section(..)?)
ExtendOrAbort(r) ==
    IF r.st = "ok" THEN Continue(pronunciation, meanings \o r.val) ELSE Abort(r.st)

Fetch ==
    /\ pc = "fetch"
    /\ LET r == fetch_french_sections(doc)
       IN  IF r.st = "ok"
           THEN /\ sections' = r.val
                /\ pc' = "loop"
                /\ UNCHANGED <<arg, ret, doc, idx, pronunciation, meanings, result>>
           ELSE Abort(IF r.st = "none" THEN "err" ELSE r.st)

InLoop == pc = "loop" /\ idx <= Len(sections)

header_text == get_header_text(sections[idx][1])

SkipSection ==
    /\ InLoop
    /\ header_text = None
    /\ Continue(pronunciation, meanings)

\* The Pronunciation arm keeping the earlier value when the extractor
\* finds nothing.
ArmPronunciation_keep_on_miss ==
    /\ InLoop
    /\ header_text = Some(sPronunciation)
    /\ LET pr == get_pr_from_section(sections[idx])
       IN  Continue(IF pr = None THEN pronunciation ELSE pr, meanings)

ArmPronunciation ==
    /\ InLoop
    /\ header_text = Some(sPronunciation)
    /\ Continue(get_pr_from_section(sections[idx]), meanings)

ArmNoun ==
    /\ InLoop
    /\ header_text = Some(sNoun)
    /\ LET gender == get_gender_from_section(sections[idx])
       IN  ExtendOrAbort(get_meanings_from_section(sections[idx], Noun(gender)))

ArmAdjective ==
    /\ InLoop
    /\ header_text = Some(sAdjective)
    /\ LET adj_forms == get_adj_form_from_section(sections[idx])
       IN  IF adj_forms.st = "ok"
           THEN ExtendOrAbort(get_meanings_from_section(sections[idx], adj_forms.val))
           ELSE Abort(IF adj_forms.st = "none" THEN "err" ELSE adj_forms.st)

ArmPartOfSpeech ==
    /\ InLoop
    /\ header_text # None
    /\ header_text[1] \in part_of_speech_name
    /\ ExtendOrAbort(get_meanings_from_section(sections[idx], Plain(VariantOf(header_text[1]))))

ArmIgnored ==
    /\ InLoop
    /\ header_text # None
    /\ header_text[1] \notin {sPronunciation, sNoun, sAdjective} \cup part_of_speech_name
    /\ Continue(pronunciation, meanings)

Return ==
    /\ pc = "loop"
    /\ idx > Len(sections)
    /\ pc' = "done"
    /\ result' = Ok(Word(arg, pronunciation, meanings))
    /\ UNCHANGED <<arg, ret, doc, sections, idx, pronunciation, meanings>>

Next ==
    \/ Fetch
    \/ SkipSection
    \/ ArmPronunciation
    \/ ArmNoun
    \/ ArmAdjective
    \/ ArmPartOfSpeech
    \/ ArmIgnored
    \/ Return

Spec == Init /\ [][Next]_vars

(***************************************************************************)
(* The earlier lookup of main.rs: one joined meaning text, one example and *)
(* the transcription, returned as a map of card fields                     *)
(***************************************************************************)
sJoin == <<";", " ">>

sDashes == <<" ", "-", "-", " ">>

sSound == <<"[", "s", "o", "u", "n", "d", ":", "]">>

\* Vec<String>::join
RECURSIVE Join(_, _)
Join(ss, sep) ==
    IF ss = <<>> THEN <<>>
    ELSE IF Len(ss) = 1 THEN ss[1]
    ELSE ss[1] \o sep \o Join(Tail(ss), sep)

main_parse_example(node, inline_mode) ==
    LET orig_query == IF inline_mode THEN Sel("i", {"Latn", "mention", "e-example"})
                      ELSE Sel("span", {"e-quotation"})
        orig == query_select_first(node, orig_query)
        trans == query_select_first(node, Sel("span", {"e-translation"}))
    IN  IF orig = None \/ orig[1].kind # "tag" THEN None
        ELSE IF trans = None THEN Some(<<inner_text(orig[1]), None>>)
        ELSE IF trans[1].kind = "tag"
             THEN Some(<<inner_text(orig[1]), Some(inner_text(trans[1]))>>)
             ELSE None

main_parse_meaning_item(node) ==
    LET children == get_children(node)
    IN  IF children = None \/ children[1] = <<>> THEN None
        ELSE LET cs == children[1]
                 last_node == cs[Len(cs)]
                 hs == IF last_node.kind # "tag" THEN <<>>
                       ELSE IF last_node.name = "dl"
                       THEN query_selector(last_node, Sel("div", {"h-usage-example"}))
                       ELSE IF last_node.name = "ul"
                       THEN query_selector(last_node, Sel("li", {}))
                       ELSE <<>>
                 examples == FilterSome([i \in 1..Len(hs) |->
                                 main_parse_example(hs[i], last_node.name = "dl")])
                 texts == Concat([i \in 1..Len(cs) |-> inner_text(cs[i])])
             IN  Some([meaning |-> Trim(FirstLine(texts)), examples |-> examples])

\* The joined shortened meanings of the first ol and its first example;
\* nothing when there is no ol or one of its li cannot be parsed.
get_meaning_from_section(section) ==
    LET ol == find_first_node_by_name(Tail(section), "ol")
    IN  IF ol = None THEN None
        ELSE LET children == get_children(ol[1])[1]
                 lis == SelectSeq(children, LAMBDA n : n.kind = "tag" /\ n.name = "li")
                 items == [i \in 1..Len(lis) |-> main_parse_meaning_item(lis[i])]
             IN  IF \E i \in 1..Len(items) : items[i] = None THEN None
                 ELSE LET meanings_ == [i \in 1..Len(items) |->
                                          shorten_meaning(items[i][1].meaning)]
                          examples == Concat([i \in 1..Len(items) |-> items[i][1].examples])
                      IN  Some([meaning |-> Join(meanings_, sJoin),
                                example |-> SubSeq(examples, 1, Min({1, Len(examples)}))])

example_remove_trans(example) ==
    LET sentence == example[1]
        transl == IF example[2] = None THEN <<>> ELSE example[2][1]
    IN  <<sentence \o sDashes \o transl, sentence>>

\* The labels of the meaning arm.
main_meaning_labels ==
    {sNoun, sPronoun, sVerb, sAdjective, sAdverb, sNumeral, sDeterminer, sInterjection}

\* The map of card fields that is returned.
CardFields(word, ipa, meaning, example) ==
    [word |-> Some(word), word_with_article |-> None, frequency_index |-> None,
     IPA |-> ipa, noun_declention |-> None, meaning |-> meaning,
     example |-> IF example = None THEN None ELSE Some(example_remove_trans(example[1])[1]),
     example_untranslated |->
         IF example = None THEN None ELSE Some(example_remove_trans(example[1])[2]),
     wiki_link |-> Some(sWikiUrl \o word \o sAnchor), verb_declention |-> None,
     audio_parisian |-> Some(sSound), audio_quebecois |-> None]

\* Subsections the earlier lookup is run on.
liToBe == Tag("li", {}, <<Raw(sToBe)>>)

MainSectionKinds ==
    { <<Heading("h3", sPreposition), Ol(<<liCat>>)>>,
      <<Heading("h3", sVerb), Ol(<<liToBe, liCat>>)>>,
      <<Heading("h3", sNoun), Ol(<<liToBe>>)>>,
      <<Heading("h4", sPronunciation), ulPron>>,
      <<Heading("h3", sEtymology), pText, Ol(<<liCat>>)>>,
      <<UnreadableHeading("h3", sVerb), Ol(<<liCat>>)>>,
      <<Heading("h3", sAdverb), pText>>,
      <<Heading("h3", sInterjection), Ol(<<Tag("li", {}, <<>>)>>)>> }

MaxMainSections == 2

MainDocs ==
    {Tag("html", {}, <<>>), Page(<<Heading("h2", sFrench), pText>>)}
    \cup {Page(<<Heading("h2", sFrench)>> \o Concat(ss) \o <<Heading("h3", sEtymology), pText>>) :
            ss \in SeqsUpTo(MainSectionKinds, MaxMainSections)}

InitMain ==
    /\ pc = "fetch"
    /\ arg \in Words
    /\ doc \in MainDocs
    /\ ret = [ipa |-> None, meaning |-> None, example |-> None]
    /\ sections = <<>>
    /\ idx = 1
    /\ pronunciation = None
    /\ meanings = <<>>
    /\ result = Running

MainAbort(kind) ==
    /\ pc' = "done"
    /\ result' = Fail(kind)
    /\ UNCHANGED <<arg, ret, doc, sections, idx, pronunciation, meanings>>

MainContinue(r) ==
    /\ ret' = r
    /\ idx' = idx + 1
    /\ UNCHANGED <<pc, arg, doc, sections, result, pronunciation, meanings>>

\* The same steps as fetch_french_sections, every failure ending the
\* lookup with nothing.
MainFetch ==
    /\ pc = "fetch"
    /\ LET r == fetch_french_sections(doc)
       IN  IF r.st = "ok"
           THEN /\ sections' = r.val
                /\ pc' = "loop"
                /\ UNCHANGED <<arg, ret, doc, idx, pronunciation, meanings, result>>
           ELSE MainAbort(r.st)

MainSkipSection ==
    /\ InLoop
    /\ header_text = None
    /\ MainContinue(ret)

MainArmPronunciation ==
    /\ InLoop
    /\ header_text = Some(sPronunciation)
    /\ LET ul == find_first_node_by_name(Tail(sections[idx]), "ul")
           ipa_node == IF ul = None THEN None
                       ELSE query_select_first(ul[1], Sel("span", {"IPA"}))
           ipa == IF ipa_node = None THEN None ELSE get_immediate_text(ipa_node[1])
       IN  MainContinue([ret EXCEPT !.ipa = ipa])

MainArmMeaning ==
    /\ InLoop
    /\ header_text # None
    /\ header_text[1] \in main_meaning_labels
    /\ LET r == get_meaning_from_section(sections[idx])
       IN  IF r = None THEN MainAbort("none")
           ELSE MainContinue([ret EXCEPT !.meaning = Some(r[1].meaning),
                                         !.example = r[1].example])

MainArmIgnored ==
    /\ InLoop
    /\ header_text # None
    /\ header_text[1] \notin {sPronunciation} \cup main_meaning_labels
    /\ MainContinue(ret)

MainReturn ==
    /\ pc = "loop"
    /\ idx > Len(sections)
    /\ pc' = "done"
    /\ result' = Ok(CardFields(arg, ret.ipa, ret.meaning, ret.example))
    /\ UNCHANGED <<arg, ret, doc, sections, idx, pronunciation, meanings>>

NextMain ==
    \/ MainFetch
    \/ MainSkipSection
    \/ MainArmPronunciation
    \/ MainArmMeaning
    \/ MainArmIgnored
    \/ MainReturn

SpecMain == InitMain /\ [][NextMain]_vars

(***************************************************************************)
(* shorten_meaning applied once and again to its own result                 *)
(***************************************************************************)
Idle ==
    /\ doc = Tag("html", {}, <<>>)
    /\ sections = <<>>
    /\ idx = 1
    /\ pronunciation = None
    /\ meanings = <<>>
    /\ result = Running

\* The pieces the input texts are put together from: a run of letters as
\* long as the threshold, one two short of it, a two-byte letter, an
\* opening " (" and a closing ")".
ShortenTokens ==
    { Rep(ShortenThreshold, "a"), Rep(ShortenThreshold - 2, "a"), <<eAcute>>,
      <<" ", "(">>, <<")">> }

MaxTokX == 3

MaxTokY == 2

Texts(n) == {Concat(ts) : ts \in SeqsUpTo(ShortenTokens, n)}

\* The text an input stands for: X alone, or X followed by " (" Y ")".
InputText(a) == IF a.paren THEN a.X \o <<" ", "(">> \o a.Y \o <<")">> ELSE a.X

InitShorten ==
    /\ pc = "shorten"
    /\ arg \in [X : Texts(MaxTokX), Y : Texts(MaxTokY), paren : {TRUE}]
               \cup [X : Texts(MaxTokX), Y : {<<>>}, paren : {FALSE}]
    /\ ret = <<>>
    /\ Idle

Shorten ==
    /\ pc = "shorten"
    /\ ret' = <<shorten_meaning(InputText(arg))>>
    /\ pc' = "shortened"
    /\ UNCHANGED <<arg, doc, sections, idx, pronunciation, meanings, result>>

ShortenAgain ==
    /\ pc = "shortened"
    /\ ret' = Append(ret, shorten_meaning(ret[1]))
    /\ pc' = "done"
    /\ UNCHANGED <<arg, doc, sections, idx, pronunciation, meanings, result>>

NextShorten == Shorten \/ ShortenAgain

SpecShorten == InitShorten /\ [][NextShorten]_vars

(***************************************************************************)
(* split_at_h3_h4 applied to a node sequence                                *)
(***************************************************************************)
SplitNodeKinds ==
    { Heading("h2", sFrench), Heading("h3", sNoun), Heading("h4", sPronunciation),
      UnreadableHeading("h3", sNoun), pText, Raw(<<"\n">>) }

MaxRegion == 4

InitSplit ==
    /\ pc = "split"
    /\ arg \in SeqsUpTo(SplitNodeKinds, MaxRegion)
    /\ ret = <<>>
    /\ Idle

Split ==
    /\ pc = "split"
    /\ ret' = split_at_h3_h4(arg)
    /\ pc' = "done"
    /\ UNCHANGED <<arg, doc, sections, idx, pronunciation, meanings, result>>

NextSplit == Split

SpecSplit == InitSplit /\ [][NextSplit]_vars

(***************************************************************************)
(* What a document holds, read off the tree                                *)
(***************************************************************************)
\* The top-level content nodes of a page.
BodyOf(d) == IF d.kids = <<>> THEN <<>> ELSE d.kids[1].kids

IsHeading(n, levels) == n.kind = "tag" /\ n.name \in levels

LabelOf(n) == get_header_text(n)

FrenchHeadings(d) ==
    {i \in 1..Len(BodyOf(d)) : IsHeading(BodyOf(d)[i], {"h2"}) /\ LabelOf(BodyOf(d)[i]) = Some(sFrench)}

NoFrenchHeading(d) == FrenchHeadings(d) = {}

\* The language region: from the first "French" h2 up to the next h2.
FrenchRegion(d) ==
    LET body == BodyOf(d)
        start == Min(FrenchHeadings(d))
        later == {j \in (start + 1)..Len(body) : IsHeading(body[j], {"h2"})}
    IN  SubSeq(body, start, IF later = {} THEN Len(body) ELSE Min(later) - 1)

SubHeadings(region) == {i \in 1..Len(region) : IsHeading(region[i], {"h3", "h4"})}

\* The subsections of a region in document order, each running from its
\* sub-heading to the next sub-heading or to the end of the region.
Subsections(region) ==
    LET hs == SubHeadings(region)
        EndOf(i) == LET later == {j \in hs : j > i}
                    IN  IF later = {} THEN Len(region) ELSE Min(later) - 1
        Starts == SelectSeq([i \in 1..Len(region) |-> i], LAMBDA i : i \in hs)
    IN  [k \in 1..Len(Starts) |-> SubSeq(region, Starts[k], EndOf(Starts[k]))]

RecognizedLabels == {sNoun, sAdjective} \cup part_of_speech_name

IsRecognized(sec) == LabelOf(sec[1]) # None /\ LabelOf(sec[1])[1] \in RecognizedLabels

HasNode(sec, name) == \E i \in 2..Len(sec) : sec[i].kind = "tag" /\ sec[i].name = name

\* The two failures of a subsection: a recognized part-of-speech
\* subsection with no ordered list, an Adjective subsection with no paragraph.
SubsectionFails(sec) ==
    /\ IsRecognized(sec)
    /\ \/ ~HasNode(sec, "ol")
       \/ LabelOf(sec[1]) = Some(sAdjective) /\ ~HasNode(sec, "p")

SubsectionPanics(sec) ==
    LabelOf(sec[1]) = Some(sAdjective) /\ get_adj_form_from_section(sec).st = "panic"

\* The meanings a subsection holds (none when it is not a part-of-speech
\* subsection or cannot be parsed).
SectionMeanings(sec) ==
    IF ~IsRecognized(sec) \/ SubsectionFails(sec) \/ SubsectionPanics(sec) THEN <<>>
    ELSE LET label == LabelOf(sec[1])[1]
             pos == IF label = sNoun THEN Noun(get_gender_from_section(sec))
                    ELSE IF label = sAdjective THEN get_adj_form_from_section(sec).val
                    ELSE Plain(VariantOf(label))
         IN  get_meanings_from_section(sec, pos).val

RECURSIVE IsSubseq(_, _)
\* a can be obtained from b by deleting elements.
IsSubseq(a, b) ==
    IF a = <<>> THEN TRUE
    ELSE IF b = <<>> THEN FALSE
    ELSE IF Head(a) = Head(b) THEN IsSubseq(Tail(a), Tail(b))
    ELSE IsSubseq(a, Tail(b))

(***************************************************************************)
(* Claims                                                                  *)
(***************************************************************************)
\* C1: for every document whose French region contains at least one
\* subsection headed by a recognized part-of-speech label, the Word that
\* wiktionary_lookup produces has a non-empty meanings sequence, and the
\* meanings appear in the document order of their subsections.
C1_MeaningsNonEmptyInOrder ==
    (/\ pc = "done"
     /\ result.st = "ok"
     /\ ~NoFrenchHeading(doc)
     /\ \E k \in 1..Len(Subsections(FrenchRegion(doc))) :
            IsRecognized(Subsections(FrenchRegion(doc))[k]))
    => LET subs == Subsections(FrenchRegion(doc))
       IN  /\ result.val.meanings # <<>>
           /\ IsSubseq(result.val.meanings,
                       Concat([k \in 1..Len(subs) |-> SectionMeanings(subs[k])]))

\* C2: for every document in which no top-level h2 heading has the visible
\* label "French", extraction ends in a failure value: the assembly loop is
\* never entered and no Word, not even a partial one, is returned.
C2_NoFrenchNoWord ==
    NoFrenchHeading(doc)
    => /\ pc # "loop"
       /\ result.st # "ok"
       /\ pc = "done" => result.st = "err"

\* C2 witness: a page with another language's entry (and so with recognized
\* part-of-speech subsections) but no "French" heading has been looked up.
C2_Witness ==
    /\ pc = "done"
    /\ NoFrenchHeading(doc)
    /\ \E i \in 1..Len(BodyOf(doc)) : IsHeading(BodyOf(doc)[i], {"h2"})
    /\ \E i \in 1..Len(BodyOf(doc)) : LabelOf(BodyOf(doc)[i]) = Some(sNoun)
    /\ result.st = "err"

\* C3: a failure in one subsection (a recognized part-of-speech subsection
\* with no ordered list, or an Adjective subsection with no paragraph) does
\* not abort the extraction: a Word is returned and it holds the meanings of
\* every other subsection, before or after the failing one.
C3_FailureDoesNotAbort ==
    (/\ pc = "done"
     /\ \E i \in 1..Len(sections) : SubsectionFails(sections[i])
     /\ \A i \in 1..Len(sections) : ~SubsectionPanics(sections[i]))
    => /\ result.st = "ok"
       /\ result.val.meanings = Concat([i \in 1..Len(sections) |-> SectionMeanings(sections[i])])

\* C7: for the scenario page (h2 "French", a single h3 "Noun", one list item
\* "cat (an animal)" with a trailing dl holding the inline example "J'ai un
\* chat" / "I have a cat") extraction returns a Word with exactly one
\* Meaning: Noun with no gender, definition "cat (an animal)", and the one
\* Example ("J'ai un chat", Some("I have a cat")).
C7_Scenario ==
    (pc = "done" /\ BodyOf(doc) \in ScenarioBodies)
    => result = Ok(Word(arg, None,
                        <<[pos |-> Noun(None), meaning |-> sCatAnAnimal,
                           examples |-> <<<<sJaiUnChat, Some(sIHaveACat)>>>>]>>))

\* C4: shorten_meaning is idempotent: shortening an already shortened text
\* changes nothing, also for texts that end in two or more long parentheticals.
C4_Idempotent == pc = "done" => ret[2] = ret[1]

\* A text ends in a space-preceded parenthetical: it is X " (" Y ")" for
\* some X and Y.
EndsInParenthetical(t) ==
    /\ t # <<>>
    /\ t[Len(t)] = ")"
    /\ \E i \in 1..(Len(t) - 2) : t[i] = " " /\ t[i + 1] = "("

\* C5: shortening law: X " (" Y ")" is shortened to exactly X when Y has at
\* least 15 characters and is returned unchanged when Y has fewer; a text
\* that does not end in a space-preceded parenthetical is returned unchanged;
\* also when X or Y contain " (" or ")".
C5_ShorteningLaw ==
    pc # "shorten"
    => /\ (arg.paren /\ Len(arg.Y) >= ShortenThreshold) => ret[1] = arg.X
       /\ (arg.paren /\ Len(arg.Y) < ShortenThreshold) => ret[1] = InputText(arg)
       /\ ~EndsInParenthetical(InputText(arg)) => ret[1] = InputText(arg)

\* The nodes below n that are elements with this name and these classes.
Matching(n, name, classes) ==
    SelectSeq(Descendants(n), LAMBDA d : d.kind = "tag" /\ d.name = name /\ classes \subseteq d.class)

\* The text of an element that wraps exactly one text node.
VerbatimText(n) == IF Len(n.kids) = 1 /\ n.kids[1].kind = "raw" THEN Some(n.kids[1].text) ELSE None

Paragraphs(sec) == {i \in 1..Len(sec) : sec[i].kind = "tag" /\ sec[i].name = "p"}

\* The gender stated by the first abbreviation of the first paragraph.
StatedGender(sec) ==
    IF Paragraphs(sec) = {} THEN None
    ELSE LET abbrs == Matching(sec[Min(Paragraphs(sec))], "abbr", {})
         IN  IF abbrs = <<>> THEN None
             ELSE IF VerbatimText(abbrs[1]) = Some(<<"m">>) THEN Some("Masculine")
             ELSE IF VerbatimText(abbrs[1]) = Some(<<"f">>) THEN Some("Feminine")
             ELSE None

\* The first paragraph holds no abbreviation with the text "m" or "f".
NoGenderAbbr(sec) ==
    \/ Paragraphs(sec) = {}
    \/ LET abbrs == Matching(sec[Min(Paragraphs(sec))], "abbr", {})
       IN  \A k \in 1..Len(abbrs) : VerbatimText(abbrs[k]) \notin {Some(<<"m">>), Some(<<"f">>)}

\* The meanings a step of the loop has appended.
Appended == SubSeq(meanings', Len(meanings) + 1, Len(meanings'))

\* C6: for every Noun subsection the gender is Masculine exactly when the
\* first abbreviation of the first paragraph has the verbatim text "m",
\* Feminine exactly when it is "f", and absent otherwise (in particular when
\* the first paragraph has no abbreviation "m" or "f"); a missing gender
\* never fails the subsection: with an ordered list the loop goes on, and
\* every meaning of the subsection carries Noun with that gender.
C6_NounGender ==
    [][(InLoop /\ header_text = Some(sNoun))
       => LET sec == sections[idx]
          IN  IF HasNode(sec, "ol")
              THEN /\ pc' = "loop"
                   /\ idx' = idx + 1
                   /\ \A j \in 1..Len(Appended) : Appended[j].pos = Noun(StatedGender(sec))
                   /\ NoGenderAbbr(sec)
                      => \A j \in 1..Len(Appended) : Appended[j].pos.gender = None
              ELSE pc' = "done" /\ result'.st = "err"]_vars

\* C6 witness: a Noun subsection whose first paragraph holds two
\* abbreviations, "f" first, has been parsed into a Feminine meaning.
C6_Witness ==
    /\ pc = "loop"
    /\ idx = 2
    /\ LabelOf(sections[1][1]) = Some(sNoun)
    /\ Paragraphs(sections[1]) # {}
    /\ Len(Matching(sections[1][Min(Paragraphs(sections[1]))], "abbr", {})) = 2
    /\ meanings # <<>>
    /\ meanings[1].pos = Noun(Some("Feminine"))

\* The positions of the h3 and h4 headings of a node sequence, in order.
SubHeadingSeq(nodes) == SelectSeq([i \in 1..Len(nodes) |-> i], LAMBDA i : i \in SubHeadings(nodes))

\* C8: split_at_h3_h4 applied to a region with k >= 0 sub-headings returns
\* normally with exactly max(k-1, 0) subsections, the i-th running from the
\* i-th sub-heading up to but excluding the (i+1)-th; with zero or one
\* sub-heading it yields the empty list and does not crash.
C8_SplitTotal ==
    pc = "done"
    => LET h == SubHeadingSeq(arg)
       IN  /\ ret.st = "ok"
           /\ Len(ret.val) = (IF Len(h) >= 1 THEN Len(h) - 1 ELSE 0)
           /\ \A i \in 1..Len(ret.val) : ret.val[i] = SubSeq(arg, h[i], h[i + 1] - 1)

\* The form an adjective paragraph states under a label: the text of the
\* <b> that immediately follows an <i> with that label (the last such pair).
StatedForm(sec, label) ==
    LET p == sec[Min(Paragraphs(sec))]
        els == SelectSeq(p.kids, LAMBDA n : n.kind = "tag")
        pairs == {k \in 1..(Len(els) - 1) :
                    els[k].name = "i" /\ inner_text(els[k]) = label /\ els[k + 1].name = "b"}
    IN  IF pairs = {} THEN None ELSE Some(inner_text(els[Max(pairs) + 1]))

StatedForms(sec) ==
    Adjective(StatedForm(sec, sFeminine), StatedForm(sec, sMasculinePlural),
              StatedForm(sec, sFemininePlural))

\* C9: an Adjective subsection that contains a paragraph never fails in the
\* form extractor, whatever the paragraph holds (also with zero or one
\* element children): the lookup stops at such a subsection only for a
\* missing ordered list, and the forms are those of the <i><b> pairs.
C9_AdjFormsTotal ==
    /\ (/\ pc = "done"
        /\ result.st # "ok"
        /\ idx <= Len(sections)
        /\ LabelOf(sections[idx][1]) = Some(sAdjective)
        /\ HasNode(sections[idx], "p"))
       => (result.st = "err" /\ ~HasNode(sections[idx], "ol"))
    /\ (/\ pc = "loop"
        /\ idx = 2
        /\ LabelOf(sections[1][1]) = Some(sAdjective))
       => \A j \in 1..Len(meanings) : meanings[j].pos = StatedForms(sections[1])

\* The examples a list item states: one per example container of its last
\* child that holds an original sentence, with the translation if it has one.
StatedExamples(li) ==
    LET last == li.kids[Len(li.kids)]
        inline == last.kind = "tag" /\ last.name = "dl"
        quote == last.kind = "tag" /\ last.name = "ul"
        containers == IF inline THEN Matching(last, "div", {"h-usage-example"})
                      ELSE IF quote THEN Matching(last, "li", {})
                      ELSE <<>>
        Origs(c) == IF inline THEN Matching(c, "i", {"Latn", "mention", "e-example"})
                    ELSE Matching(c, "span", {"e-quotation"})
        Trans(c) == Matching(c, "span", {"e-translation"})
        kept == SelectSeq(containers, LAMBDA c : Origs(c) # <<>>)
    IN  [j \in 1..Len(kept) |->
            <<inner_html(Origs(kept[j])[1]),
              IF Trans(kept[j]) = <<>> THEN None ELSE Some(inner_html(Trans(kept[j])[1]))>>]

\* The non-empty list items of a subsection's first ordered list.
ListItems(sec) ==
    LET ols == {i \in 2..Len(sec) : sec[i].kind = "tag" /\ sec[i].name = "ol"}
    IN  SelectSeq(sec[Min(ols)].kids,
                  LAMBDA n : n.kind = "tag" /\ n.name = "li" /\ n.kids # <<>>)

\* C10: when the last child of a list item is a dl or a ul, the item's
\* examples are, in document order, exactly one Example per example
\* container that holds an original sentence (with or without a
\* translation); other containers are skipped without affecting the other
\* examples or the Meaning; any other last child gives zero examples.
C10_ExamplesPerContainer ==
    [][(InLoop /\ IsRecognized(sections[idx]) /\ pc' = "loop")
       => LET items == ListItems(sections[idx])
          IN  /\ Len(Appended) = Len(items)
              /\ \A j \in 1..Len(items) : Appended[j].examples = StatedExamples(items[j])]_vars

\* C10 witness: a list item whose dl holds two example containers, one of
\* them without an original sentence, has been parsed into one example.
C10_Witness ==
    /\ pc = "loop"
    /\ idx = 2
    /\ IsRecognized(sections[1])
    /\ Len(meanings) = 1
    /\ LET li == ListItems(sections[1])[1]
           last == li.kids[Len(li.kids)]
       IN  /\ last.name = "dl"
           /\ Len(Matching(last, "div", {"h-usage-example"})) = 2
           /\ Len(meanings[1].examples) = 1

\* The pronunciation a subsection states: the verbatim text of the first
\* IPA span and the src of the first source element of its first
\* unordered list, or nothing when either piece is missing.
StatedPronunciation(sec) ==
    LET uls == {i \in 2..Len(sec) : sec[i].kind = "tag" /\ sec[i].name = "ul"}
    IN  IF uls = {} THEN None
        ELSE LET ipas == Matching(sec[Min(uls)], "span", {"IPA"})
                 srcs == Matching(sec[Min(uls)], "source", {})
             IN  IF ipas = <<>> \/ srcs = <<>> THEN None
                 ELSE IF VerbatimText(ipas[1]) = None \/ srcs[1].src = None THEN None
                 ELSE Some([ipa |-> VerbatimText(ipas[1])[1],
                            audio_url |-> sHttps \o srcs[1].src[1]])

\* What the last Pronunciation subsection among the first n states.
LastPronunciation(n) ==
    LET ps == {i \in 1..n : LabelOf(sections[i][1]) = Some(sPronunciation)}
    IN  IF ps = {} THEN None ELSE StatedPronunciation(sections[Max(ps)])

\* C11: the accumulated pronunciation is always the extractor result of the
\* last Pronunciation subsection processed so far (absent when that one
\* yields nothing, even if an earlier one succeeded, and absent when there
\* is none); other subsections never change it; the Word returned after the
\* loop carries the value for the last Pronunciation subsection of all.
C11_LastPronunciationWins ==
    /\ pc = "loop" => pronunciation = LastPronunciation(idx - 1)
    /\ (pc = "done" /\ result.st = "ok")
       => result.val.pronunciation = LastPronunciation(Len(sections))

\* C11 witness: a Word has been returned without pronunciation although an
\* earlier Pronunciation subsection was complete, because the last one was not.
C11_Witness ==
    /\ pc = "done"
    /\ result.st = "ok"
    /\ result.val.pronunciation = None
    /\ \E i, j \in 1..Len(sections) :
          /\ i < j
          /\ LabelOf(sections[i][1]) = Some(sPronunciation)
          /\ LabelOf(sections[j][1]) = Some(sPronunciation)
          /\ StatedPronunciation(sections[i]) # None
          /\ StatedPronunciation(sections[j]) = None

\* The labels with a variant of their own name and no attributes.
FixedVariants ==
    { <<sVerb, "Verb">>, <<sPronoun, "Pronoun">>, <<sAdverb, "Adverb">>,
      <<sNumeral, "Numeral">>, <<sDeterminer, "Determiner">>,
      <<sPreposition, "Preposition">>, <<sInterjection, "Interjection">> }

FixedVariantLabels == {p[1] : p \in FixedVariants}

VariantNamed(label) == (CHOOSE p \in FixedVariants : p[1] = label)[2]

\* A subsection that is to be ignored: its label cannot be read or is
\* none of the dispatched ones.
IsIgnored(sec) ==
    \/ LabelOf(sec[1]) = None
    \/ LabelOf(sec[1])[1] \notin FixedVariantLabels \cup {sPronunciation, sNoun, sAdjective}

HasFixedVariant(sec) == LabelOf(sec[1]) # None /\ LabelOf(sec[1])[1] \in FixedVariantLabels

\* The meaning texts of the items of a subsection's list, joined.
StatedMeaningText(sec) ==
    LET ms == get_meanings_from_section(sec, Plain("Verb")).val
    IN  Join([j \in 1..Len(ms) |-> ms[j].meaning], sJoin)

\* C12: in the lookup of main.rs, a step on a subsection labelled Verb,
\* Pronoun, Adverb, Numeral, Determiner, Preposition or Interjection that
\* goes on with the loop has parsed it with the meaning parser, so the
\* meaning held is that subsection's; a step on a subsection with any other
\* label outside Pronunciation, Noun, Adjective, or with an unreadable
\* label, goes on with the loop and changes nothing that was accumulated.
\* (The map of main.rs has no variants to carry.)
C12_DispatchByLabel ==
    [][InLoop
       => /\ (HasFixedVariant(sections[idx]) /\ HasNode(sections[idx], "ol"))
             => (pc' = "loop" => ret'.meaning = Some(StatedMeaningText(sections[idx])))
          /\ IsIgnored(sections[idx])
             => (pc' = "loop" /\ idx' = idx + 1 /\ ret' = ret /\ result' = result)]_vars

\* In the lookup of lookup.rs the same dispatch holds with the variants:
\* every Meaning appended for such a label carries the variant of that
\* name, one per list item, and an ignored subsection changes nothing.
LookupDispatchByLabel ==
    [][InLoop
       => /\ (HasFixedVariant(sections[idx]) /\ pc' = "loop")
             => /\ Len(Appended) = Len(ListItems(sections[idx]))
                /\ pronunciation' = pronunciation
                /\ \A j \in 1..Len(Appended) :
                      Appended[j].pos = Plain(VariantNamed(LabelOf(sections[idx][1])[1]))
          /\ IsIgnored(sections[idx])
             => /\ pc' = "loop" /\ idx' = idx + 1 /\ result' = result
                /\ meanings' = meanings /\ pronunciation' = pronunciation]_vars

\* A Preposition subsection with a list has been processed.
PrepositionProcessed ==
    /\ pc = "loop"
    /\ idx > 1
    /\ LabelOf(sections[idx - 1][1]) = Some(sPreposition)
    /\ HasNode(sections[idx - 1], "ol")

====
